---- MODULE Spec2Model ----
(***************************************************************************)
(* A model of scripts/process_data.py: the ACS panel builder               *)
(* (prepare_acs_panel and its helpers) and the LODES sector aggregation    *)
(* with its dot-density synthesis (process_lodes).                         *)
(*                                                                         *)
(* Files on disk are state.  Text cells are sequences of characters, so    *)
(* that parsing (pd.to_numeric), concatenation (state + county + tract)    *)
(* and slicing (h_geocode[0:11]) are computed, not assumed.  Numbers are   *)
(* records [k, n, d]: k = "num" is the rational n/d (d > 0, lowest terms), *)
(* k = "nan" is not-a-number, k = "inf" is the infinity of sign n.         *)
(* Polygons are sets of unit grid cells <<i, j>>.                          *)
(***************************************************************************)
EXTENDS Integers, Sequences, FiniteSets, TLC

VARIABLES
    tractsFile,     \* boundaries/tracts_dfw.geojson: [cols, rows]
    redevFile,      \* boundaries/redev_orgs.geojson: [cols, rows]
    acsFiles,       \* raw/acs/acs5_*_dfw.csv in sorted order: seq of [cols, rows]
    lodesFile,      \* raw/lodes/tx_rac_S000_JT00_2023.csv.gz: [exists, rows]
    stream,         \* the generator's output sequence after seeding, as k/Res
    rng,            \* the generator's state: its position in the stream
    pc,             \* position of main(): which step runs next
    error,          \* the exception that ended the run, "" when none
    redevTracts,    \* the last call of add_redev_to_tracts: [called, ok, rows]
    tractsIn,       \* the tract rows add_redev_to_tracts was given
    tractRedev,     \* processed/tract_redev.csv
    panel,          \* processed/acs_panel.csv
    latest,         \* processed/acs_latest.geojson
    meta,           \* processed/acs_metadata.json
    long_df,        \* processed/lodes_tract_sector.csv
    dominant,       \* processed/lodes_dominant_sector.csv
    dots,           \* the list of dots built by the synthesis loop
    dotsFile,       \* processed/lodes_dots.geojson
    loop,           \* the loop position of the synthesis: [row, count, slot, attempt]
    emitted,        \* per long_df row: the number of dots emitted for it
    tally,          \* per long_df row: the slots opened and the draws made for it
    run,            \* how many times process_lodes has been started
    prevDots        \* the dots of the previous completed process_lodes run

vars == <<tractsFile, redevFile, acsFiles, lodesFile, stream, rng, pc, error,
          redevTracts, tractsIn, tractRedev, panel, latest, meta, long_df,
          dominant, dots, dotsFile, loop, emitted, tally, run, prevDots>>

----------------------------------------------------------------------------
(* Program constants                                                       *)

\* process_data.py:12-79, keys in dictionary order
ACS_KEYS == <<
    "total_pop", "median_income", "poverty_total", "poverty_pop",
    "edu_total_25plus", "edu_ba", "edu_ma", "edu_prof",
    "edu_phd", "owner_occ", "renter_occ", "race_total",
    "race_white", "race_black", "race_native", "race_asian",
    "race_pacific", "race_other", "race_two_plus", "race_hispanic",
    "male_under5", "male_5_9", "male_10_14", "male_15_17",
    "male_18_19", "male_20", "male_21", "male_22_24",
    "male_25_29", "male_30_34", "male_35_39", "male_40_44",
    "male_45_49", "male_50_54", "male_55_59", "male_60_61",
    "male_62_64", "male_65_66", "male_67_69", "male_70_74",
    "male_75_79", "male_80_84", "male_85_plus", "female_under5",
    "female_5_9", "female_10_14", "female_15_17", "female_18_19",
    "female_20", "female_21", "female_22_24", "female_25_29",
    "female_30_34", "female_35_39", "female_40_44", "female_45_49",
    "female_50_54", "female_55_59", "female_60_61", "female_62_64",
    "female_65_66", "female_67_69", "female_70_74", "female_75_79",
    "female_80_84", "female_85_plus"
>>

\* process_data.py:12-79, the source variable code of each key
ACS_VARIABLES ==
    [k \in {ACS_KEYS[i] : i \in DOMAIN ACS_KEYS} |->
        CASE k = "total_pop" -> "B01003_001E"
          [] k = "median_income" -> "B19013_001E"
          [] k = "poverty_total" -> "B17001_001E"
          [] k = "poverty_pop" -> "B17001_002E"
          [] k = "edu_total_25plus" -> "B15003_001E"
          [] k = "edu_ba" -> "B15003_022E"
          [] k = "edu_ma" -> "B15003_023E"
          [] k = "edu_prof" -> "B15003_024E"
          [] k = "edu_phd" -> "B15003_025E"
          [] k = "owner_occ" -> "B25003_002E"
          [] k = "renter_occ" -> "B25003_003E"
          [] k = "race_total" -> "B03002_001E"
          [] k = "race_white" -> "B03002_003E"
          [] k = "race_black" -> "B03002_004E"
          [] k = "race_native" -> "B03002_005E"
          [] k = "race_asian" -> "B03002_006E"
          [] k = "race_pacific" -> "B03002_007E"
          [] k = "race_other" -> "B03002_008E"
          [] k = "race_two_plus" -> "B03002_009E"
          [] k = "race_hispanic" -> "B03002_012E"
          [] k = "male_under5" -> "B01001_003E"
          [] k = "male_5_9" -> "B01001_004E"
          [] k = "male_10_14" -> "B01001_005E"
          [] k = "male_15_17" -> "B01001_006E"
          [] k = "male_18_19" -> "B01001_007E"
          [] k = "male_20" -> "B01001_008E"
          [] k = "male_21" -> "B01001_009E"
          [] k = "male_22_24" -> "B01001_010E"
          [] k = "male_25_29" -> "B01001_011E"
          [] k = "male_30_34" -> "B01001_012E"
          [] k = "male_35_39" -> "B01001_013E"
          [] k = "male_40_44" -> "B01001_014E"
          [] k = "male_45_49" -> "B01001_015E"
          [] k = "male_50_54" -> "B01001_016E"
          [] k = "male_55_59" -> "B01001_017E"
          [] k = "male_60_61" -> "B01001_018E"
          [] k = "male_62_64" -> "B01001_019E"
          [] k = "male_65_66" -> "B01001_020E"
          [] k = "male_67_69" -> "B01001_021E"
          [] k = "male_70_74" -> "B01001_022E"
          [] k = "male_75_79" -> "B01001_023E"
          [] k = "male_80_84" -> "B01001_024E"
          [] k = "male_85_plus" -> "B01001_025E"
          [] k = "female_under5" -> "B01001_027E"
          [] k = "female_5_9" -> "B01001_028E"
          [] k = "female_10_14" -> "B01001_029E"
          [] k = "female_15_17" -> "B01001_030E"
          [] k = "female_18_19" -> "B01001_031E"
          [] k = "female_20" -> "B01001_032E"
          [] k = "female_21" -> "B01001_033E"
          [] k = "female_22_24" -> "B01001_034E"
          [] k = "female_25_29" -> "B01001_035E"
          [] k = "female_30_34" -> "B01001_036E"
          [] k = "female_35_39" -> "B01001_037E"
          [] k = "female_40_44" -> "B01001_038E"
          [] k = "female_45_49" -> "B01001_039E"
          [] k = "female_50_54" -> "B01001_040E"
          [] k = "female_55_59" -> "B01001_041E"
          [] k = "female_60_61" -> "B01001_042E"
          [] k = "female_62_64" -> "B01001_043E"
          [] k = "female_65_66" -> "B01001_044E"
          [] k = "female_67_69" -> "B01001_045E"
          [] k = "female_70_74" -> "B01001_046E"
          [] k = "female_75_79" -> "B01001_047E"
          [] k = "female_80_84" -> "B01001_048E"
          [] k = "female_85_plus" -> "B01001_049E" ]

\* process_data.py:81-102, keys in dictionary order
SECTOR_COLS == <<
    "CNS01", "CNS02", "CNS03", "CNS04", "CNS05",
    "CNS06", "CNS07", "CNS08", "CNS09", "CNS10",
    "CNS11", "CNS12", "CNS13", "CNS14", "CNS15",
    "CNS16", "CNS17", "CNS18", "CNS19", "CNS20"
>>

\* process_data.py:81-102
SECTOR_MAP ==
    [c \in {SECTOR_COLS[i] : i \in DOMAIN SECTOR_COLS} |->
        CASE c = "CNS01" -> "Agriculture_Forestry_Fishing"
          [] c = "CNS02" -> "Mining"
          [] c = "CNS03" -> "Utilities"
          [] c = "CNS04" -> "Construction"
          [] c = "CNS05" -> "Manufacturing"
          [] c = "CNS06" -> "Wholesale_Trade"
          [] c = "CNS07" -> "Retail_Trade"
          [] c = "CNS08" -> "Transportation_Warehousing"
          [] c = "CNS09" -> "Information"
          [] c = "CNS10" -> "Finance_Insurance"
          [] c = "CNS11" -> "Real_Estate_Rental"
          [] c = "CNS12" -> "Professional_Scientific_Technical"
          [] c = "CNS13" -> "Management_Companies"
          [] c = "CNS14" -> "Admin_Waste_Services"
          [] c = "CNS15" -> "Educational_Services"
          [] c = "CNS16" -> "Health_Care_Social_Assistance"
          [] c = "CNS17" -> "Arts_Entertainment_Recreation"
          [] c = "CNS18" -> "Accommodation_Food_Services"
          [] c = "CNS19" -> "Other_Services"
          [] c = "CNS20" -> "Public_Administration" ]

\* process_data.py:336
jobs_per_dot == 50

\* process_data.py:337
max_dots_per_tract == 250

\* process_data.py:348
MaxAttempts == 20

\* process_data.py:339
Seed == 42

\* process_data.py:313, the width of the tract prefix of h_geocode
GeoidLen == 11

----------------------------------------------------------------------------
(* Bounds of the model                                                     *)

\* the generator yields multiples of 1/Res in [0, 1)
Res == 4

\* the generator's output repeats after StreamLen values
StreamLen == 3

----------------------------------------------------------------------------
(* Numbers: float64 arithmetic of pandas on exact rationals               *)

Abs(x) == IF x < 0 THEN -x ELSE x

Sign(x) == IF x < 0 THEN -1 ELSE IF x > 0 THEN 1 ELSE 0

Min2(a, b) == IF a <= b THEN a ELSE b

RECURSIVE Gcd(_, _)
Gcd(a, b) == IF b = 0 THEN a ELSE Gcd(b, a % b)

NaN == [k |-> "nan", n |-> 0, d |-> 1]

Inf(s) == [k |-> "inf", n |-> s, d |-> 1]

\* the rational n/d (d # 0) in lowest terms with a positive denominator
Rat(n, d) ==
    LET g == Gcd(Abs(n), Abs(d))
        s == Sign(d)
    IN  [k |-> "num", n |-> (s * n) \div g, d |-> (s * d) \div g]

Int2Num(i) == [k |-> "num", n |-> i, d |-> 1]

IsNaN(a) == a.k = "nan"

IsNum(a) == a.k = "num"

\* a + b in IEEE arithmetic
NumAdd(a, b) ==
    IF IsNaN(a) \/ IsNaN(b) THEN NaN
    ELSE IF a.k = "inf" /\ b.k = "inf" THEN (IF a.n = b.n THEN a ELSE NaN)
    ELSE IF a.k = "inf" THEN a
    ELSE IF b.k = "inf" THEN b
    ELSE Rat(a.n * b.d + b.n * a.d, a.d * b.d)

NumNeg(a) == IF IsNaN(a) THEN NaN ELSE [a EXCEPT !.n = -a.n]

\* a - b in IEEE arithmetic
NumSub(a, b) == NumAdd(a, NumNeg(b))

\* a / b in IEEE arithmetic, as pandas divides two numeric columns: a zero
\* divisor gives nan for 0/0 and a signed infinity otherwise, never an error
NumDiv(a, b) ==
    IF IsNaN(a) \/ IsNaN(b) THEN NaN
    ELSE IF b.k = "inf" THEN (IF a.k = "inf" THEN NaN ELSE Int2Num(0))
    ELSE IF b.n = 0 THEN (IF a.n = 0 THEN NaN ELSE Inf(Sign(a.n)))
    ELSE IF a.k = "inf" THEN Inf(a.n * Sign(b.n))
    ELSE Rat(a.n * b.d, a.d * b.n)

\* a <= b on ordinary numbers
NumLeq(a, b) == a.n * b.d <= b.n * a.d

----------------------------------------------------------------------------
(* Text cells: sequences of characters                                     *)

DigitVal ==
    [c \in {"0", "1", "2", "3", "4", "5", "6", "7", "8", "9"} |->
        CASE c = "0" -> 0 [] c = "1" -> 1 [] c = "2" -> 2 [] c = "3" -> 3
          [] c = "4" -> 4 [] c = "5" -> 5 [] c = "6" -> 6 [] c = "7" -> 7
          [] c = "8" -> 8 [] c = "9" -> 9]

IsDigits(s) == \A i \in DOMAIN s : s[i] \in DOMAIN DigitVal

RECURSIVE DecVal(_)
DecVal(s) ==
    IF s = <<>> THEN 0
    ELSE 10 * DecVal(SubSeq(s, 1, Len(s) - 1)) + DigitVal[s[Len(s)]]

RECURSIVE Pow10(_)
Pow10(e) == IF e = 0 THEN 1 ELSE 10 * Pow10(e - 1)

\* an unsigned decimal literal: digits, with at most one "." among them
ParseUnsigned(s) ==
    LET dotsAt == {i \in DOMAIN s : s[i] = "."}
    IN  IF dotsAt = {}
        THEN IF s # <<>> /\ IsDigits(s) THEN Int2Num(DecVal(s)) ELSE NaN
        ELSE IF Cardinality(dotsAt) > 1 THEN NaN
        ELSE LET p == CHOOSE i \in dotsAt : TRUE
                 ip == SubSeq(s, 1, p - 1)
                 fp == SubSeq(s, p + 1, Len(s))
             IN  IF IsDigits(ip) /\ IsDigits(fp) /\ Len(ip) + Len(fp) > 0
                 THEN Rat(DecVal(ip) * Pow10(Len(fp)) + DecVal(fp), Pow10(Len(fp)))
                 ELSE NaN

\* pd.to_numeric(cell, errors="coerce") on one text cell: a decimal literal
\* with an optional sign parses, anything else (and the empty cell) is nan
to_numeric(s) ==
    IF s = <<>> THEN NaN
    ELSE IF s[1] = "-" THEN NumNeg(ParseUnsigned(Tail(s)))
    ELSE IF s[1] = "+" THEN ParseUnsigned(Tail(s))
    ELSE ParseUnsigned(s)

\* Series.fillna(0) on one cell
fillna0(a) == IF IsNaN(a) THEN Int2Num(0) ELSE a

\* Series.astype(int) on one finite cell: truncation toward zero
astype_int(a) == Sign(a.n) * (Abs(a.n) \div a.d)

\* lexicographic order on text cells of digits (the order of sort_values
\* and of groupby on the geoid strings)
RECURSIVE TextLess(_, _)
TextLess(s, t) ==
    IF t = <<>> THEN FALSE
    ELSE IF s = <<>> THEN TRUE
    ELSE IF s[1] # t[1] THEN DigitVal[s[1]] < DigitVal[t[1]]
    ELSE TextLess(Tail(s), Tail(t))

----------------------------------------------------------------------------
(* Sequences                                                               *)

Range(s) == {s[i] : i \in DOMAIN s}

\* the elements of s at the positions where keep holds, in order
RECURSIVE Select(_, _)
Select(s, keep) ==
    IF s = <<>> THEN <<>>
    ELSE Select(SubSeq(s, 1, Len(s) - 1), SubSeq(keep, 1, Len(s) - 1))
         \o (IF keep[Len(s)] THEN <<s[Len(s)]>> ELSE <<>>)

\* the concatenation of the sequences of ss
RECURSIVE Flatten(_)
Flatten(ss) ==
    IF ss = <<>> THEN <<>>
    ELSE Flatten(SubSeq(ss, 1, Len(ss) - 1)) \o ss[Len(ss)]

----------------------------------------------------------------------------
(* Geometry: a polygon is the union of the closed unit cells <<i, j>>      *)

\* shapely "intersects" on two polygons: the closed cell unions share a
\* point, which they do when a cell of one equals or touches a cell of the
\* other
Intersects(g, h) ==
    \E a \in g, b \in h : Abs(a[1] - b[1]) <= 1 /\ Abs(a[2] - b[2]) <= 1

\* Polygon.bounds: (minx, miny, maxx, maxy)
Bounds(g) ==
    LET xs == {c[1] : c \in g}
        ys == {c[2] : c \in g}
        lo(S) == CHOOSE m \in S : \A x \in S : m <= x
        hi(S) == CHOOSE m \in S : \A x \in S : m >= x
    IN  <<lo(xs), lo(ys), hi(xs) + 1, hi(ys) + 1>>

\* random.uniform(a, b) = a + (b - a) * random(), with random() = k/Res;
\* the result is in units of 1/Res
Uniform(a, b, k) == a * Res + (b - a) * k

\* Polygon.contains(Point(x, y)), coordinates in units of 1/Res: the point is
\* in the interior, so every cell whose closure holds it is part of the polygon
Contains(g, x, y) ==
    LET is == IF x % Res = 0 THEN {(x \div Res) - 1, x \div Res} ELSE {x \div Res}
        js == IF y % Res = 0 THEN {(y \div Res) - 1, y \div Res} ELSE {y \div Res}
    IN  \A i \in is, j \in js : <<i, j>> \in g

----------------------------------------------------------------------------
(* Spatial attribution                                                     *)

\* cells of the boundary table
Str(s) == [t |-> "str", s |-> s, i |-> 0]

Null == [t |-> "null", s |-> "", i |-> 0]

IntCell(i) == [t |-> "int", s |-> "", i |-> i]

\* Series.astype(str) on one cell
astype_str(c) ==
    CASE c.t = "str" -> c.s
      [] c.t = "null" -> "None"
      [] c.t = "int" -> ToString(c.i)

\* process_data.py:106-113
candidates == <<"ORG_NAME", "ORGANIZATION", "REDEV_ORG", "REDEV_NAME", "NAME", "ORG">>

\* pick_name_column: cols is the ordered column list, each [name, dtype]
pick_name_column(cols) ==
    LET names == {cols[i].name : i \in DOMAIN cols}
        hits == {i \in DOMAIN candidates : candidates[i] \in names}
        objs == {i \in DOMAIN cols : cols[i].dtype = "object"}
    IN  IF hits # {}
        THEN candidates[CHOOSE i \in hits : \A j \in hits : i <= j]
        ELSE IF objs # {}
        THEN cols[CHOOSE i \in objs : \A j \in objs : i <= j].name
        ELSE cols[1].name

\* the label column absent from a table
NoLabel == "<absent>"

\* the fill left out: a missing label stays missing
fillna_skipped(label, na) == label

\* Series.fillna("None") on one label cell of the join; na marks a left row
\* without a right match
fillna_None(label, na) == IF na THEN "None" ELSE label

\* gpd.sjoin(tracts, redev, predicate="intersects", how="left") for one tract:
\* one row per intersecting boundary, in the boundary table's order, or one
\* row with a missing label
sjoin_left(t, labels, geoms) ==
    LET hit(i) == Intersects(t.geometry, geoms[i])
        matches == Select([i \in DOMAIN geoms |-> i], [i \in DOMAIN geoms |-> hit(i)])
    IN  IF matches = <<>>
        THEN <<[GEOID |-> t.GEOID, geometry |-> t.geometry,
                redev_name |-> fillna_None(NoLabel, TRUE)]>>
        ELSE [m \in DOMAIN matches |->
                [GEOID |-> t.GEOID, geometry |-> t.geometry,
                 redev_name |-> fillna_None(labels[matches[m]], FALSE)]]

\* add_redev_to_tracts: the joined rows, or the KeyError of line 217 when the
\* tract table already has a redev_name column (sjoin then names the two
\* columns redev_name_left and redev_name_right)
add_redev_to_tracts(tracts, redev) ==
    LET name_col == pick_name_column(redev.cols)
        labels == [i \in DOMAIN redev.rows |-> astype_str(redev.rows[i].vals[name_col])]
        geoms == [i \in DOMAIN redev.rows |-> redev.rows[i].geometry]
        one(i) == sjoin_left(tracts.rows[i], labels, geoms)
    IN  IF "redev_name" \in tracts.cols
        THEN [ok |-> FALSE, err |-> "KeyError", rows |-> <<>>]
        ELSE [ok |-> TRUE, err |-> "",
              rows |-> Flatten([i \in 1..Len(tracts.rows) |-> one(i)])]

----------------------------------------------------------------------------
(* Indicator derivation                                                    *)

\* read_acs: the per-year files concatenated in sorted path order, the year
\* cell parsed to an integer; RuntimeError when there is no file
read_acs(files) ==
    LET one(f) == [r \in DOMAIN files[f].rows |->
                     [cells |-> files[f].rows[r],
                      year |-> DecVal(files[f].rows[r]["year"])]]
    IN  IF files = <<>>
        THEN [ok |-> FALSE, err |-> "RuntimeError", cols |-> {}, rows |-> <<>>]
        ELSE [ok |-> TRUE, err |-> "",
              cols |-> UNION {files[f].cols : f \in DOMAIN files},
              rows |-> Flatten([i \in 1..Len(files) |-> one(i)])]

\* process_data.py:223-225: the keys whose source variable is not a column
missing_variables(cols) ==
    {k \in DOMAIN ACS_VARIABLES : ACS_VARIABLES[k] \notin cols}

\* coerce_numeric on one row, after the rename of line 226: every indicator
\* cell parsed, unparseable text becoming nan
coerce_numeric(cells) ==
    [k \in DOMAIN ACS_VARIABLES |-> to_numeric(cells[ACS_VARIABLES[k]])]

\* process_data.py:143-152
under18_cols == <<
    "male_under5", "male_5_9", "male_10_14", "male_15_17",
    "female_under5", "female_5_9", "female_10_14", "female_15_17"
>>

\* process_data.py:153-180
age_18_64_cols == <<
    "male_18_19", "male_20", "male_21", "male_22_24", "male_25_29",
    "male_30_34", "male_35_39", "male_40_44", "male_45_49", "male_50_54",
    "male_55_59", "male_60_61", "male_62_64",
    "female_18_19", "female_20", "female_21", "female_22_24", "female_25_29",
    "female_30_34", "female_35_39", "female_40_44", "female_45_49",
    "female_50_54", "female_55_59", "female_60_61", "female_62_64"
>>

\* process_data.py:181-194
age_65_plus_cols == <<
    "male_65_66", "male_67_69", "male_70_74", "male_75_79", "male_80_84",
    "male_85_plus",
    "female_65_66", "female_67_69", "female_70_74", "female_75_79",
    "female_80_84", "female_85_plus"
>>

\* one cell as DataFrame.sum(axis=1) adds it: skipna is on by default, so a
\* nan cell adds nothing
sum_cell(a) == IF IsNaN(a) THEN Int2Num(0) ELSE a

\* df[cols].sum(axis=1) on one row
RECURSIVE row_sum(_, _)
row_sum(v, cols) ==
    IF cols = <<>> THEN Int2Num(0)
    ELSE NumAdd(row_sum(v, SubSeq(cols, 1, Len(cols) - 1)), sum_cell(v[cols[Len(cols)]]))

\* compute_age_bands on one row
compute_age_bands(v) ==
    [age_under18 |-> row_sum(v, under18_cols),
     age_18_64 |-> row_sum(v, age_18_64_cols),
     age_65_plus |-> row_sum(v, age_65_plus_cols)]

\* compute_rates on one row
compute_rates(v) ==
    LET ba_plus == NumAdd(NumAdd(NumAdd(v["edu_ba"], v["edu_ma"]), v["edu_prof"]),
                          v["edu_phd"])
        occupied == NumAdd(v["owner_occ"], v["renter_occ"])
    IN  [poverty_rate |-> NumDiv(v["poverty_pop"], v["poverty_total"]),
         owner_rate |-> NumDiv(v["owner_occ"], occupied),
         renter_rate |-> NumDiv(v["renter_occ"], occupied),
         ba_plus |-> ba_plus,
         ba_plus_rate |-> NumDiv(ba_plus, v["edu_total_25plus"]),
         hispanic_rate |-> NumDiv(v["race_hispanic"], v["race_total"])]

\* process_data.py:252-276: the numeric columns of keep_cols, in order
numeric_cols == <<
    "total_pop", "median_income", "poverty_total", "poverty_pop", "poverty_rate",
    "owner_occ", "renter_occ", "owner_rate", "renter_rate", "edu_total_25plus",
    "ba_plus", "ba_plus_rate", "race_total", "race_white", "race_black",
    "race_native", "race_asian", "race_pacific", "race_other", "race_two_plus",
    "race_hispanic", "hispanic_rate", "age_under18", "age_18_64", "age_65_plus"
>>

NumericSet == Range(numeric_cols)

\* process_data.py:228-232 and 278 on one raw row: geoid, the coerced and
\* derived indicators, projected to the kept columns
enrich(r) ==
    LET v == coerce_numeric(r.cells)
        all == v @@ compute_age_bands(v) @@ compute_rates(v)
    IN  [geoid |-> r.cells["state"] \o r.cells["county"] \o r.cells["tract"],
         year |-> r.year,
         val |-> [c \in NumericSet |-> all[c]]]

----------------------------------------------------------------------------
(* Panel                                                                   *)

\* acs.merge(tracts[["GEOID", "redev_name"]], how="left") and the fillna of
\* line 246 on one record: one row per tract row of the same identifier, in
\* the tract table's order, or one row labelled "None"
merge_label(a, trows) ==
    LET same(i) == trows[i].GEOID = a.geoid
        matches == Select(trows, [i \in DOMAIN trows |-> same(i)])
    IN  IF matches = <<>>
        THEN <<[geoid |-> a.geoid, year |-> a.year, val |-> a.val,
                redev_name |-> fillna_None(NoLabel, TRUE)]>>
        ELSE [m \in DOMAIN matches |->
                [geoid |-> a.geoid, year |-> a.year, val |-> a.val,
                 redev_name |-> fillna_None(matches[m].redev_name, FALSE)]]

\* the order of sort_values(["geoid", "year"])
RowLess(a, b) ==
    \/ TextLess(a.geoid, b.geoid)
    \/ a.geoid = b.geoid /\ a.year < b.year

\* x put into the sorted s behind every row that does not come after it
RECURSIVE InsertSorted(_, _)
InsertSorted(s, x) ==
    IF s = <<>> THEN <<x>>
    ELSE IF RowLess(x, s[Len(s)])
    THEN Append(InsertSorted(SubSeq(s, 1, Len(s) - 1), x), s[Len(s)])
    ELSE Append(s, x)

\* panel.sort_values(["geoid", "year"]).reset_index(drop=True): a stable sort
RECURSIVE sort_values(_)
sort_values(s) ==
    IF s = <<>> THEN <<>>
    ELSE InsertSorted(sort_values(SubSeq(s, 1, Len(s) - 1)), s[Len(s)])

\* the row groupby("geoid") puts right before row i in its group, 0 if none
prev_in_group(p, i) ==
    LET before == {j \in 1..(i - 1) : p[j].geoid = p[i].geoid}
    IN  IF before = {} THEN 0 ELSE CHOOSE j \in before : \A h \in before : h <= j

\* panel.groupby("geoid")[col].diff() for every numeric column
with_deltas(p) ==
    [i \in DOMAIN p |->
        LET j == prev_in_group(p, i)
        IN  [geoid |-> p[i].geoid, year |-> p[i].year,
             redev_name |-> p[i].redev_name, val |-> p[i].val,
             delta |-> [c \in NumericSet |->
                          IF j = 0 THEN NaN ELSE NumSub(p[i].val[c], p[j].val[c])]]]

\* process_data.py:240-283: the panel from the enriched records and the
\* labelled tract rows
build_panel(acsRows, trows) ==
    LET one(i) == merge_label(enrich(acsRows[i]), trows)
    IN  with_deltas(sort_values(Flatten([i \in 1..Len(acsRows) |-> one(i)])))

\* panel["year"].max()
latest_year(p) == CHOOSE y \in {p[i].year : i \in DOMAIN p} :
                     \A i \in DOMAIN p : p[i].year <= y

\* the indicator cells of a tract without a row in the right table
MissingVals == [c \in NumericSet |-> NaN]

\* tracts.merge(latest, left_on="GEOID", right_on="geoid", how="left") on one
\* tract row: one row per latest-year panel row of the tract, or one row with
\* missing indicators
merge_latest(t, lrows) ==
    LET same(i) == lrows[i].geoid = t.GEOID
        matches == Select(lrows, [i \in DOMAIN lrows |-> same(i)])
    IN  IF matches = <<>>
        THEN <<[GEOID |-> t.GEOID, geometry |-> t.geometry,
                redev_name |-> t.redev_name, matched |-> FALSE, year |-> 0, val |-> MissingVals, delta |-> MissingVals]>>
        ELSE [m \in DOMAIN matches |->
                [GEOID |-> t.GEOID, geometry |-> t.geometry,
                 redev_name |-> t.redev_name, matched |-> TRUE,
                 year |-> matches[m].year, val |-> matches[m].val,
                 delta |-> matches[m].delta]]

\* process_data.py:287-289
build_latest(p, trows) ==
    LET y == latest_year(p)
        isLatest(i) == p[i].year = y
        lrows == Select(p, [i \in DOMAIN p |-> isLatest(i)])
        one(i) == merge_latest(trows[i], lrows)
    IN  Flatten([i \in 1..Len(trows) |-> one(i)])

\* prepare_acs_panel: what it writes, or the error that ends it before any
\* write.  tracts and redev are the two boundary files, files the ACS
\* extracts.
prepare_acs_panel(files, tracts, redev) ==
    LET acs == read_acs(files)
        joined == add_redev_to_tracts(tracts, redev)
        p == build_panel(acs.rows, joined.rows)
        failed(e) == [ok |-> FALSE, err |-> e, called |-> FALSE, tracts |-> tracts,
                      tract_redev |-> <<>>, panel |-> <<>>, latest |-> <<>>,
                      meta |-> [latest_year |-> 0, acs_variables |-> <<>>,
                                delta_variables |-> <<>>]]
    IN  IF ~acs.ok THEN failed(acs.err)
        ELSE IF missing_variables(acs.cols) # {} THEN failed("RuntimeError")
        ELSE IF ~joined.ok THEN [failed(joined.err) EXCEPT !.called = TRUE]
        ELSE [ok |-> TRUE, err |-> "", called |-> TRUE,
              tracts |-> [cols |-> tracts.cols \cup {"redev_name"},
                          rows |-> joined.rows],
              tract_redev |-> [i \in DOMAIN joined.rows |->
                                 [GEOID |-> joined.rows[i].GEOID,
                                  redev_name |-> joined.rows[i].redev_name]],
              panel |-> p,
              latest |-> build_latest(p, joined.rows),
              meta |-> [latest_year |-> latest_year(p),
                        acs_variables |-> <<"geoid", "year", "redev_name">> \o numeric_cols,
                        delta_variables |-> numeric_cols]]

----------------------------------------------------------------------------
(* Sector aggregation                                                      *)

SectorSet == Range(SECTOR_COLS)

\* process_data.py:312 on one cell:
\* pd.to_numeric(errors="coerce").fillna(0).astype(int)
coerce_count(cell) == astype_int(fillna0(to_numeric(cell)))

\* process_data.py:313 on one cell: h_geocode.str.slice(0, 11)
tract_prefix(h) == SubSeq(h, 1, Min2(GeoidLen, Len(h)))

\* the texts of S in ascending order
RECURSIVE SortedTexts(_)
SortedTexts(S) ==
    IF S = {} THEN <<>>
    ELSE LET m == CHOOSE x \in S : \A y \in S : ~TextLess(y, x)
         IN  <<m>> \o SortedTexts(S \ {m})

\* the sum of column c over the records of rows whose tract prefix is g
RECURSIVE group_sum(_, _, _)
group_sum(rows, g, c) ==
    IF rows = <<>> THEN 0
    ELSE group_sum(SubSeq(rows, 1, Len(rows) - 1), g, c)
         + (IF tract_prefix(rows[Len(rows)].h_geocode) = g
            THEN coerce_count(rows[Len(rows)].cells[c]) ELSE 0)

\* process_data.py:311-315: one row per tract prefix, in ascending order,
\* with the summed coerced counts
aggregate(rows) ==
    LET gs == SortedTexts({tract_prefix(rows[i].h_geocode) : i \in DOMAIN rows})
    IN  [i \in DOMAIN gs |->
            [geoid |-> gs[i],
             jobs |-> [c \in SectorSet |-> group_sum(rows, gs[i], c)]]]

\* process_data.py:319-320 on one aggregated row: the inner merge with
\* tracts[["GEOID", "redev_name"]]
merge_inner(a, trows) ==
    LET same(i) == trows[i].GEOID = a.geoid
        matches == Select(trows, [i \in DOMAIN trows |-> same(i)])
    IN  [m \in DOMAIN matches |->
            [geoid |-> a.geoid, redev_name |-> matches[m].redev_name,
             jobs |-> a.jobs]]

\* process_data.py:322-328: melt to one row per (tract row, sector), sector
\* by sector in SECTOR_MAP's order
melt(wide) ==
    LET col(s) == [i \in DOMAIN wide |->
                     [geoid |-> wide[i].geoid, redev_name |-> wide[i].redev_name,
                      naics_sector |-> SECTOR_COLS[s],
                      jobs |-> wide[i].jobs[SECTOR_COLS[s]],
                      sector_name |-> SECTOR_MAP[SECTOR_COLS[s]]]]
    IN  Flatten([i \in 1..Len(SECTOR_COLS) |-> col(i)])

\* the last row holding the group's maximum instead of the first
idxmax_last(long, g) ==
    LET grp == {i \in DOMAIN long : long[i].geoid = g}
        top == {i \in grp : \A j \in grp : long[j].jobs <= long[i].jobs}
    IN  CHOOSE i \in top : \A j \in top : j <= i

\* Series.idxmax() within the group of tract g: the first row holding the
\* group's maximum
idxmax(long, g) ==
    LET grp == {i \in DOMAIN long : long[i].geoid = g}
        top == {i \in grp : \A j \in grp : long[j].jobs <= long[i].jobs}
    IN  CHOOSE i \in top : \A j \in top : i <= j

\* process_data.py:331-332: long_df.loc[long_df.groupby("geoid")["jobs"].idxmax()]
dominant_rows(long) ==
    LET gs == SortedTexts({long[i].geoid : i \in DOMAIN long})
    IN  [k \in DOMAIN gs |->
            LET r == long[idxmax(long, gs[k])]
            IN  [geoid |-> r.geoid, redev_name |-> r.redev_name,
                 dominant_sector |-> r.naics_sector, jobs |-> r.jobs,
                 sector_name |-> r.sector_name]]

\* process_data.py:304-333: the long table of process_lodes
lodes_long(lodes, tracts) ==
    LET agg == aggregate(lodes.rows)
        one(i) == merge_inner(agg[i], tracts.rows)
    IN  melt(Flatten([i \in 1..Len(agg) |-> one(i)]))

----------------------------------------------------------------------------
(* Dot-density synthesis                                                   *)

\* the seeding left out: the generator stays in the state it is in
seed_kept(s) == rng

\* random.seed(s): the generator's state is a function of the seed alone
seed(s) == s % StreamLen

\* random.random() in state r, as k/Res
random(r) == stream[r + 1]

\* the generator's state after one draw
advance(r) == (r + 1) % StreamLen

\* the count without the cap of max_dots_per_tract
dot_count_uncapped(jobs) == jobs \div jobs_per_dot

\* process_data.py:346
dot_count(jobs) == Min2(jobs \div jobs_per_dot, max_dots_per_tract)

\* tracts_index.loc[geoid, "geometry"]: the geometries under that identifier
tract_geoms(geoid) ==
    LET same(i) == tractsFile.rows[i].GEOID = geoid
    IN  Select(tractsFile.rows, [i \in DOMAIN tractsFile.rows |-> same(i)])

\* process_data.py:349-351: the point drawn in state r within the bounds b
draw_point(r, b) ==
    [x |-> Uniform(b[1], b[3], random(r)),
     y |-> Uniform(b[2], b[4], random(advance(r)))]

----------------------------------------------------------------------------
(* Inputs: the staged files a run starts from                              *)

StateFp == <<"4", "8">>

CountyFp == <<"4", "3", "9">>

TractA == <<"1", "0", "0", "2", "0", "0">>

TractB == <<"1", "0", "0", "1", "0", "0">>

TractX == <<"1", "0", "0", "9", "0", "0">>

GeoidA == StateFp \o CountyFp \o TractA

GeoidB == StateFp \o CountyFp \o TractB

GeoidX == StateFp \o CountyFp \o TractX

\* tract A is an L of three cells, tract B one cell
TractInputs ==
    [cols |-> {"GEOID", "geometry"},
     rows |-> <<[GEOID |-> GeoidA, geometry |-> {<<0, 0>>, <<1, 0>>, <<0, 1>>},
                 redev_name |-> NoLabel],
                [GEOID |-> GeoidB, geometry |-> {<<5, 0>>}, redev_name |-> NoLabel]>>]

\* boundary polygons: North and East touch tract A, Far touches no tract,
\* South touches tract B
North == {<<0, 2>>, <<1, 2>>}

East == {<<2, 0>>}

Far == {<<9, 9>>}

South == {<<5, 1>>}

RedevGeoms == {<<North, Far>>, <<North, East>>, <<Far>>, <<East, North, South>>}

\* column layouts of the boundary file, with the cells of boundary i
RedevLayouts == {
    <<[name |-> "OBJECTID", dtype |-> "int64"], [name |-> "NAME", dtype |-> "object"],
      [name |-> "geometry", dtype |-> "geometry"]>>,
    <<[name |-> "NAME", dtype |-> "object"], [name |-> "ORG_NAME", dtype |-> "object"],
      [name |-> "geometry", dtype |-> "geometry"]>>,
    <<[name |-> "OBJECTID", dtype |-> "int64"], [name |-> "LABEL", dtype |-> "object"],
      [name |-> "ZONE", dtype |-> "object"], [name |-> "geometry", dtype |-> "geometry"]>>,
    <<[name |-> "OBJECTID", dtype |-> "int64"], [name |-> "AREA", dtype |-> "int64"],
      [name |-> "geometry", dtype |-> "geometry"]>>,
    <<[name |-> "OBJECTID", dtype |-> "int64"], [name |-> "ORG", dtype |-> "object"],
      [name |-> "geometry", dtype |-> "geometry"]>> }

RedevCell(col, i) ==
    CASE col = "OBJECTID" -> IntCell(i)
      [] col = "AREA" -> IntCell(10 * i)
      [] col = "NAME" -> Str(<<"Near Southside", "Downtown", "Riverside">>[i])
      [] col = "ORG_NAME" -> Str(<<"NSI", "DFWI", "RCA">>[i])
      [] col = "LABEL" -> Str(<<"Zone 1", "Zone 2", "Zone 3">>[i])
      [] col = "ZONE" -> Str(<<"Z1", "Z2", "Z3">>[i])
      [] col = "ORG" -> IF i = 1 THEN Null ELSE Str(<<"", "Org 2", "Org 3">>[i])

RedevFile(layout, geoms) ==
    [cols |-> layout,
     rows |-> [i \in DOMAIN geoms |->
                 [vals |-> [c \in {layout[j].name : j \in DOMAIN layout} \ {"geometry"} |->
                              RedevCell(c, i)],
                  geometry |-> geoms[i]]]]

RedevInputs == {RedevFile(l, g) : l \in RedevLayouts, g \in RedevGeoms}

DefaultRedevLayout ==
    <<[name |-> "OBJECTID", dtype |-> "int64"], [name |-> "NAME", dtype |-> "object"],
      [name |-> "geometry", dtype |-> "geometry"]>>

\* the columns of a raw ACS extract
RawCols == {"state", "county", "tract", "year"} \cup
           {ACS_VARIABLES[k] : k \in DOMAIN ACS_VARIABLES}

\* the key of each source variable code
KeyOf ==
    [c \in {ACS_VARIABLES[k] : k \in DOMAIN ACS_VARIABLES} |->
        CHOOSE k \in DOMAIN ACS_VARIABLES : ACS_VARIABLES[k] = c]

\* one raw ACS row: every indicator cell holds base, except the cells ov names
AcsRow(tract, year, base, ov) ==
    [c \in RawCols |->
        CASE c = "state" -> StateFp
          [] c = "county" -> CountyFp
          [] c = "tract" -> tract
          [] c = "year" -> year
          [] OTHER -> IF KeyOf[c] \in DOMAIN ov THEN ov[KeyOf[c]] ELSE base]

Y2021 == <<"2", "0", "2", "1">>

Y2022 == <<"2", "0", "2", "2">>

Y2023 == <<"2", "0", "2", "3">>

NoOverride == [k \in {} |-> <<>>]

\* three yearly extracts, one row per (tract, year): tract A in every year,
\* tract B in the first two, tract X (outside the tract file) in the last;
\* ov changes cells of tract A's 2022 row
AcsFiles(ov) == <<
    [cols |-> RawCols,
     rows |-> <<AcsRow(TractA, Y2021, <<"1", "0">>, NoOverride),
                AcsRow(TractB, Y2021, <<"2", "0">>, NoOverride)>>],
    [cols |-> RawCols,
     rows |-> <<AcsRow(TractA, Y2022, <<"1", "2">>, ov),
                AcsRow(TractB, Y2022, <<"2", "1">>, NoOverride)>>],
    [cols |-> RawCols,
     rows |-> <<AcsRow(TractX, Y2023, <<"3">>, NoOverride),
                AcsRow(TractA, Y2023, <<"1", "5">>, NoOverride)>>] >>

AcsTokens == {<<>>, <<"N", "A">>, <<"0">>, <<"4", "0">>, <<"-", "5">>, <<"7", ".", "5">>}

OverrideCols == {"male_under5", "female_62_64", "male_85_plus", "poverty_total",
                 "poverty_pop", "owner_occ", "renter_occ", "edu_total_25plus",
                 "edu_ba", "race_total", "race_hispanic", "median_income"}

Overrides ==
    {NoOverride}
    \cup {[k \in {c} |-> t] : c \in OverrideCols, t \in AcsTokens}
    \cup {[owner_occ |-> <<"4", "0">>, renter_occ |-> <<"6", "0">>],
          [owner_occ |-> <<"0">>, renter_occ |-> <<"0">>],
          [poverty_total |-> <<"0">>, poverty_pop |-> <<"0">>],
          [poverty_total |-> <<"0">>, poverty_pop |-> <<"5">>],
          [poverty_total |-> <<>>, poverty_pop |-> <<"5">>],
          [k \in Range(under18_cols) |-> <<>>]}

\* an extract that lacks the column of one source variable
AcsFilesLacking == <<
    [cols |-> RawCols \ {ACS_VARIABLES["median_income"]},
     rows |-> <<[c \in RawCols \ {ACS_VARIABLES["median_income"]} |->
                   AcsRow(TractA, Y2021, <<"1", "0">>, NoOverride)[c]]>>] >>

AcsInputs == {AcsFiles(ov) : ov \in Overrides} \cup {<<>>, AcsFilesLacking}

\* one extract of one row
AcsFilesSmall == <<
    [cols |-> RawCols, rows |-> <<AcsRow(TractA, Y2021, <<"1", "0">>, NoOverride)>>] >>

\* one origin job record: every sector cell holds "0", except the cells ov names
LodesRow(geoid, block, ov) ==
    [h_geocode |-> geoid \o block,
     cells |-> [c \in SectorSet |-> IF c \in DOMAIN ov THEN ov[c] ELSE <<"0">>]]

Block1 == <<"1", "0", "0", "1">>

Block2 == <<"2", "0", "1", "7">>

LodesTokens == {<<"1", "2", "6", "0", "0">>, <<"-", "5">>, <<"N", "A">>, <<>>,
                <<"3", ".", "7">>, <<"9", "9", ".", "9">>}

\* job files: tract A counted from two blocks (Retail 100 + 20, Manufacturing
\* 30), or with one varying Retail cell; tract B with a tie between two
\* sectors; tract X is no tract of the tract file
LodesRows ==
    {<<LodesRow(GeoidA, Block1, [CNS07 |-> <<"1", "0", "0">>, CNS05 |-> <<"3", "0">>]),
       LodesRow(GeoidX, Block1, [CNS07 |-> <<"5", "0", "0">>]),
       LodesRow(GeoidA, Block2, [CNS07 |-> <<"2", "0">>])>>}
    \cup {<<LodesRow(GeoidB, Block1, [CNS05 |-> <<"6", "0">>, CNS07 |-> <<"6", "0">>]),
            LodesRow(GeoidA, Block1, [CNS07 |-> t]),
            LodesRow(GeoidA, Block2, [CNS07 |-> <<"2">>, CNS20 |-> <<"1">>])>> :
          t \in LodesTokens}

LodesInputs == {[exists |-> TRUE, rows |-> r] : r \in LodesRows}

\* the generator's possible output sequences: constant ones and stepping ones
Streams ==
    {[i \in 1..StreamLen |-> (a * (i - 1) + b) % Res] : a \in {0, 1}, b \in 0..(Res - 1)}

LodesGeoms == {<<North, Far>>, <<North, East>>}

EmptyLodes == [exists |-> TRUE, rows |-> <<>>]

NoLodes == [exists |-> FALSE, rows |-> <<>>]

ZeroStream == [i \in 1..StreamLen |-> 0]

DefaultRedev == RedevFile(DefaultRedevLayout, <<North, Far>>)

\* the runs checked: the ACS extracts vary, or the boundary file varies, or
\* the job file, the boundary polygons and the generator vary
Scenarios ==
    {[acs |-> a, redev |-> DefaultRedev, lodes |-> EmptyLodes, stream |-> ZeroStream] :
        a \in AcsInputs}
    \cup
    {[acs |-> AcsFiles(NoOverride), redev |-> r, lodes |-> l, stream |-> ZeroStream] :
        r \in RedevInputs, l \in {EmptyLodes, NoLodes}}
    \cup
    {[acs |-> AcsFilesSmall, redev |-> RedevFile(DefaultRedevLayout, g),
      lodes |-> l, stream |-> s] :
        g \in LodesGeoms, l \in LodesInputs, s \in Streams}

----------------------------------------------------------------------------
(* The run                                                                 *)

NoMeta == [latest_year |-> 0, acs_variables |-> <<>>, delta_variables |-> <<>>]

NoLoop == [row |-> 0, count |-> 0, slot |-> 0, attempt |-> 0]

Init ==
    \E sc \in Scenarios, r \in 0..(StreamLen - 1) :
        /\ tractsFile = TractInputs
        /\ redevFile = sc.redev
        /\ acsFiles = sc.acs
        /\ lodesFile = sc.lodes
        /\ stream = sc.stream
        /\ rng = r
        /\ pc = "start"
        /\ error = ""
        /\ redevTracts = [called |-> FALSE, ok |-> FALSE, rows |-> <<>>]
        /\ tractsIn = <<>>
        /\ tractRedev = <<>>
        /\ panel = <<>>
        /\ latest = <<>>
        /\ meta = NoMeta
        /\ long_df = <<>>
        /\ dominant = <<>>
        /\ dots = <<>>
        /\ dotsFile = <<>>
        /\ loop = NoLoop
        /\ emitted = <<>>
        /\ tally = <<>>
        /\ run = 0
        /\ prevDots = <<>>

\* main, line 388: prepare_acs_panel, to its return or to its error
PrepareAcsPanel ==
    /\ pc = "start"
    /\ LET res == prepare_acs_panel(acsFiles, tractsFile, redevFile)
       IN  /\ pc' = IF res.ok THEN "lodes" ELSE "failed"
           /\ error' = res.err
           /\ tractsIn' = IF res.called THEN tractsFile.rows ELSE tractsIn
           /\ redevTracts' = IF res.called
                             THEN [called |-> TRUE, ok |-> res.ok, rows |-> res.tracts.rows]
                             ELSE redevTracts
           /\ tractsFile' = res.tracts
           /\ tractRedev' = res.tract_redev
           /\ panel' = res.panel
           /\ latest' = res.latest
           /\ meta' = res.meta
    /\ UNCHANGED <<redevFile, acsFiles, lodesFile, stream, rng, long_df, dominant,
                   dots, dotsFile, loop, emitted, tally, run, prevDots>>

\* process_lodes, lines 304-339: the tables, and the generator seeded
ProcessLodesTables ==
    /\ pc = "lodes"
    /\ run' = run + 1
    /\ IF ~lodesFile.exists
       THEN /\ pc' = "failed"
            /\ error' = "RuntimeError"
            /\ UNCHANGED <<rng, long_df, dominant, dots, loop, emitted, tally>>
       ELSE IF "redev_name" \notin tractsFile.cols
       THEN /\ pc' = "failed"
            /\ error' = "KeyError"
            /\ UNCHANGED <<rng, long_df, dominant, dots, loop, emitted, tally>>
       ELSE LET long == lodes_long(lodesFile, tractsFile)
            IN  /\ long_df' = long
                /\ dominant' = dominant_rows(long)
                /\ dots' = <<>>
                /\ rng' = seed(Seed)
                /\ loop' = [NoLoop EXCEPT !.row = 1]
                /\ emitted' = [i \in DOMAIN long |-> 0]
                /\ tally' = [i \in DOMAIN long |-> [opened |-> 0, draws |-> 0]]
                /\ pc' = "rows"
                /\ error' = ""
    /\ UNCHANGED <<tractsFile, redevFile, acsFiles, lodesFile, stream, redevTracts,
                   tractsIn, tractRedev, panel, latest, meta, dotsFile, prevDots>>

Frame == UNCHANGED <<tractsFile, redevFile, acsFiles, lodesFile, stream, redevTracts,
                     tractsIn, tractRedev, panel, latest, meta, long_df, dominant,
                     dotsFile, run, prevDots>>

AtRow == pc = "rows" /\ loop.row <= Len(long_df)

NextRowLoop == [NoLoop EXCEPT !.row = loop.row + 1]

\* lines 342-343: a row without jobs is passed over
SkipRow ==
    /\ AtRow
    /\ long_df[loop.row].jobs <= 0
    /\ loop' = NextRowLoop
    /\ UNCHANGED <<pc, error, rng, dots, emitted, tally>>
    /\ Frame

\* lines 344-347 for a row whose count is zero: range(0) runs no slot
EmptyRow ==
    /\ AtRow
    /\ long_df[loop.row].jobs > 0
    /\ dot_count(long_df[loop.row].jobs) = 0
    /\ loop' = NextRowLoop
    /\ UNCHANGED <<pc, error, rng, dots, emitted, tally>>
    /\ Frame

\* lines 344-348: the first slot of a row is opened
OpenRow ==
    /\ AtRow
    /\ long_df[loop.row].jobs > 0
    /\ dot_count(long_df[loop.row].jobs) > 0
    /\ Len(tract_geoms(long_df[loop.row].geoid)) = 1
    /\ loop' = [row |-> loop.row, count |-> dot_count(long_df[loop.row].jobs),
                slot |-> 1, attempt |-> 1]
    /\ pc' = "draw"
    /\ tally' = [tally EXCEPT ![loop.row].opened = 1]
    /\ UNCHANGED <<error, rng, dots, emitted>>
    /\ Frame

\* line 349 when the tract file holds the tract more than once: .loc gives a
\* series of geometries, .bounds a table, and tract_bounds[0] a KeyError, in
\* the first attempt of the first slot and before anything is drawn
FailRow ==
    /\ AtRow
    /\ long_df[loop.row].jobs > 0
    /\ dot_count(long_df[loop.row].jobs) > 0
    /\ Len(tract_geoms(long_df[loop.row].geoid)) > 1
    /\ pc' = "failed"
    /\ error' = "KeyError"
    /\ tally' = [tally EXCEPT ![loop.row].opened = 1]
    /\ UNCHANGED <<loop, rng, dots, emitted>>
    /\ Frame

\* the geometry of the row being sampled
tract_geom == tract_geoms(long_df[loop.row].geoid)[1].geometry

\* the point of the current attempt
point == draw_point(rng, Bounds(tract_geom))

\* the loop position after the current slot ends
AfterSlot ==
    IF loop.slot < loop.count
    THEN [loop EXCEPT !.slot = loop.slot + 1, !.attempt = 1]
    ELSE NextRowLoop

\* the tally after a draw of the current slot; ends tells whether the draw
\* ends the slot, and the next slot of the row is then opened if there is one
Tallied(ends) ==
    [tally EXCEPT ![loop.row] =
        [opened |-> IF ends /\ loop.slot < loop.count THEN @.opened + 1 ELSE @.opened,
         draws |-> @.draws + 1]]

\* lines 349-362: an attempt whose point the polygon contains emits a dot and
\* ends the slot
DrawHit ==
    /\ pc = "draw"
    /\ Contains(tract_geom, point.x, point.y)
    /\ dots' = Append(dots, [x |-> point.x, y |-> point.y,
                             geoid |-> long_df[loop.row].geoid,
                             redev_name |-> long_df[loop.row].redev_name,
                             naics_sector |-> long_df[loop.row].naics_sector,
                             sector_name |-> long_df[loop.row].sector_name])
    /\ emitted' = [emitted EXCEPT ![loop.row] = @ + 1]
    /\ tally' = Tallied(TRUE)
    /\ rng' = advance(advance(rng))
    /\ loop' = AfterSlot
    /\ pc' = IF loop.slot < loop.count THEN "draw" ELSE "rows"
    /\ UNCHANGED error
    /\ Frame

\* lines 348-352: an attempt whose point the polygon does not contain; the
\* slot ends without a dot after the last attempt
DrawMiss ==
    /\ pc = "draw"
    /\ ~Contains(tract_geom, point.x, point.y)
    /\ rng' = advance(advance(rng))
    /\ tally' = Tallied(loop.attempt >= MaxAttempts)
    /\ IF loop.attempt < MaxAttempts
       THEN /\ loop' = [loop EXCEPT !.attempt = loop.attempt + 1]
            /\ pc' = "draw"
       ELSE /\ loop' = AfterSlot
            /\ pc' = IF loop.slot < loop.count THEN "draw" ELSE "rows"
    /\ UNCHANGED <<error, dots, emitted>>
    /\ Frame

\* lines 364-373: the dots written, an empty collection when there are none
WriteDots ==
    /\ pc = "rows"
    /\ loop.row > Len(long_df)
    /\ dotsFile' = dots
    /\ pc' = "done"
    /\ UNCHANGED <<tractsFile, redevFile, acsFiles, lodesFile, stream, rng, error,
                   redevTracts, tractsIn, tractRedev, panel, latest, meta, long_df,
                   dominant, dots, loop, emitted, tally, run, prevDots>>

\* process_lodes called once more on the same files, in this process or a
\* new one: the generator is in whatever state it was left or started in
RerunProcessLodes ==
    /\ pc = "done"
    /\ run = 1
    /\ pc' = "lodes"
    /\ prevDots' = dots
    /\ \E r \in {rng} \cup (0..(StreamLen - 1)) : rng' = r
    /\ UNCHANGED <<tractsFile, redevFile, acsFiles, lodesFile, stream, error,
                   redevTracts, tractsIn, tractRedev, panel, latest, meta, long_df,
                   dominant, dots, dotsFile, loop, emitted, tally, run>>

Next ==
    \/ PrepareAcsPanel
    \/ ProcessLodesTables
    \/ SkipRow
    \/ EmptyRow
    \/ OpenRow
    \/ FailRow
    \/ DrawHit
    \/ DrawMiss
    \/ WriteDots
    \/ RerunProcessLodes

Spec == Init /\ [][Next]_vars

----------------------------------------------------------------------------
(* Properties                                                              *)

\* prepare_acs_panel has returned
AcsDone == pc \in {"lodes", "rows", "draw", "done"} \/ (pc = "failed" /\ run > 0)

\* process_lodes has built its tables
TablesDone == pc \in {"rows", "draw", "done"}

\* the raw ACS rows as read, with the cells prepare_acs_panel parses
RawRows == read_acs(acsFiles).rows

RawGeoid(r) == r.cells["state"] \o r.cells["county"] \o r.cells["tract"]

\* the panel rows of a raw row
PanelRowsOf(r) == {i \in DOMAIN panel : panel[i].geoid = RawGeoid(r) /\ panel[i].year = r.year}

\* C1: the panel holds at most one row per (tract identifier, year), also
\* when a tract polygon intersects two or more redevelopment boundaries.
C1_PanelUnique ==
    \A i, j \in DOMAIN panel :
        (panel[i].geoid = panel[j].geoid /\ panel[i].year = panel[j].year) => i = j

\* C2: for every indicator and tract, the delta on the row of the tract's
\* first observed year is undefined, and the delta on the row of a later year
\* is the value of that year minus the value of the tract's previous observed
\* year.
C2_Deltas ==
    \A i \in DOMAIN panel :
        LET mine == {j \in DOMAIN panel : panel[j].geoid = panel[i].geoid}
            earlier == {panel[j].year : j \in {h \in mine : panel[h].year < panel[i].year}}
            prevYear == CHOOSE y \in earlier : \A z \in earlier : z <= y
        IN  \A c \in NumericSet :
                IF earlier = {}
                THEN IsNaN(panel[i].delta[c])
                ELSE \A j \in mine :
                        panel[j].year = prevYear =>
                            panel[i].delta[c] = NumSub(panel[i].val[c], panel[j].val[c])

\* the dots emitted for the tract and sector of row i of the long table
DotsOfRow(i) ==
    {d \in DOMAIN dots : /\ dots[d].geoid = long_df[i].geoid
                         /\ dots[d].naics_sector = long_df[i].naics_sector
                         /\ dots[d].redev_name = long_df[i].redev_name}

\* C3: when process_lodes has finished, no (tract, sector) row of the long
\* table has more than 250 dots, and the polygon of the tract a dot names
\* contains the dot's point.
C3_DotsBounded ==
    pc = "done" =>
        /\ \A i \in DOMAIN long_df :
              emitted[i] <= 250 /\ Cardinality(DotsOfRow(i)) <= 250
        /\ \A d \in DOMAIN dots :
              \A t \in DOMAIN tractsFile.rows :
                  tractsFile.rows[t].GEOID = dots[d].geoid =>
                      Contains(tractsFile.rows[t].geometry, dots[d].x, dots[d].y)

\* C3 witness: a finished run in which a row reached the cap of 250 dots
C3_Witness ==
    pc = "done" /\ \E i \in DOMAIN long_df : long_df[i].jobs > 12500 /\ emitted[i] = 250

\* C4: a second run of process_lodes on the same job rows and tract polygons
\* ends with the same dots in the same order as the first.
C4_Deterministic ==
    (pc = "done" /\ run = 2) => (dots = prevDots /\ dotsFile = prevDots)

\* C4 witness: a second run has finished with dots of two sectors
C4_Witness ==
    /\ pc = "done" /\ run = 2 /\ Len(dots) >= 2
    /\ \E d, e \in DOMAIN dots : dots[d].naics_sector # dots[e].naics_sector

\* the name column the boundary table's layout selects: the first candidate
\* that is a column, else the first text column, else the first column
SelectedColumn ==
    LET names == {redevFile.cols[i].name : i \in DOMAIN redevFile.cols}
        firstIn(S) == CHOOSE i \in S : \A j \in S : i <= j
        cands == {i \in DOMAIN candidates : candidates[i] \in names}
        texts == {i \in DOMAIN redevFile.cols : redevFile.cols[i].dtype = "object"}
    IN  IF cands # {} THEN candidates[firstIn(cands)]
        ELSE IF texts # {} THEN redevFile.cols[firstIn(texts)].name
        ELSE redevFile.cols[1].name

\* C5: add_redev_to_tracts returns at least one row for every input tract;
\* the label of a returned row is the name of a boundary the tract intersects,
\* or "None" when it intersects none, and is never missing.
C5_Labels ==
    (redevTracts.called /\ redevTracts.ok) =>
        /\ \A t \in DOMAIN tractsIn :
              \E r \in DOMAIN redevTracts.rows :
                  redevTracts.rows[r].GEOID = tractsIn[t].GEOID
        /\ \A r \in DOMAIN redevTracts.rows :
              LET row == redevTracts.rows[r]
                  hits == {b \in DOMAIN redevFile.rows :
                              Intersects(row.geometry, redevFile.rows[b].geometry)}
              IN  /\ row.redev_name # NoLabel
                  /\ \E t \in DOMAIN tractsIn :
                        tractsIn[t].GEOID = row.GEOID /\ tractsIn[t].geometry = row.geometry
                  /\ IF hits = {}
                     THEN row.redev_name = "None"
                     ELSE \E b \in hits :
                            row.redev_name = astype_str(redevFile.rows[b].vals[SelectedColumn])

\* C5 witness: the join returned with a tract labelled by a boundary and a
\* tract labelled "None" for want of one
C5_Witness ==
    /\ redevTracts.called /\ redevTracts.ok
    /\ \E r \in DOMAIN redevTracts.rows :
          /\ redevTracts.rows[r].redev_name = "None"
          /\ \A b \in DOMAIN redevFile.rows :
                ~Intersects(redevTracts.rows[r].geometry, redevFile.rows[b].geometry)
    /\ \E r \in DOMAIN redevTracts.rows : redevTracts.rows[r].redev_name = "Zone 1"

\* the sum of the cells of cols, missing as soon as one cell is missing
RECURSIVE StrictSum(_, _)
StrictSum(v, cols) ==
    IF cols = <<>> THEN Int2Num(0)
    ELSE NumAdd(StrictSum(v, Tail(cols)), v[Head(cols)])

\* C6: each age band of a record is the sum of its sex/age-bin cells when all
\* are present, and missing when one of them is missing.
C6_AgeBands ==
    AcsDone =>
        \A r \in DOMAIN RawRows :
            LET v == coerce_numeric(RawRows[r].cells)
            IN  \A i \in PanelRowsOf(RawRows[r]) :
                    /\ panel[i].val["age_under18"] = StrictSum(v, under18_cols)
                    /\ panel[i].val["age_18_64"] = StrictSum(v, age_18_64_cols)
                    /\ panel[i].val["age_65_plus"] = StrictSum(v, age_65_plus_cols)

\* a rate as the claim defines it: undefined when the denominator is zero or
\* missing; the quotient, within [0, 1], when the denominator is positive and
\* the numerator is between zero and it
RateAsClaimed(rate, num, den) ==
    /\ (IsNaN(den) \/ (IsNum(den) /\ den.n = 0)) => IsNaN(rate)
    /\ (IsNum(den) /\ den.n > 0 /\ IsNum(num) /\ num.n >= 0 /\ NumLeq(num, den)) =>
          /\ rate = Rat(num.n * den.d, num.d * den.n)
          /\ NumLeq(Int2Num(0), rate) /\ NumLeq(rate, Int2Num(1))

\* C7: each of the five rates is undefined when its denominator is zero or
\* missing, whatever the numerator, and is numerator / denominator within
\* [0, 1] when the denominator is positive and the numerator does not exceed it.
C7_Rates ==
    AcsDone =>
        \A r \in DOMAIN RawRows :
            LET v == coerce_numeric(RawRows[r].cells)
                occupied == NumAdd(v["owner_occ"], v["renter_occ"])
                ba == NumAdd(NumAdd(NumAdd(v["edu_ba"], v["edu_ma"]), v["edu_prof"]),
                             v["edu_phd"])
            IN  \A i \in PanelRowsOf(RawRows[r]) :
                    /\ RateAsClaimed(panel[i].val["poverty_rate"], v["poverty_pop"],
                                     v["poverty_total"])
                    /\ RateAsClaimed(panel[i].val["owner_rate"], v["owner_occ"], occupied)
                    /\ RateAsClaimed(panel[i].val["renter_rate"], v["renter_occ"], occupied)
                    /\ RateAsClaimed(panel[i].val["ba_plus_rate"], ba, v["edu_total_25plus"])
                    /\ RateAsClaimed(panel[i].val["hispanic_rate"], v["race_hispanic"],
                                     v["race_total"])

\* C8: every sector count is coerced to a non-negative integer, so every job
\* count of the long table is a non-negative integer, the sum of the coerced
\* counts of the records whose geocode starts with the tract's identifier.
C8_Counts ==
    TablesDone =>
        /\ \A r \in DOMAIN lodesFile.rows : \A c \in SectorSet :
              coerce_count(lodesFile.rows[r].cells[c]) >= 0
        /\ \A i \in DOMAIN long_df :
              /\ long_df[i].jobs >= 0
              /\ long_df[i].jobs =
                    group_sum(lodesFile.rows, long_df[i].geoid, long_df[i].naics_sector)

\* C9: the dominant-sector table holds exactly one row per tract identifier of
\* the long table; its job count is the largest of the tract's sector rows
\* and its sector that of the first long-table row with that count.
C9_Dominant ==
    TablesDone =>
        \A i \in DOMAIN long_df :
            LET g == long_df[i].geoid
                mine == {j \in DOMAIN long_df : long_df[j].geoid = g}
                found == {k \in DOMAIN dominant : dominant[k].geoid = g}
            IN  /\ Cardinality(found) = 1
                /\ \A k \in found :
                      /\ \A j \in mine : long_df[j].jobs <= dominant[k].jobs
                      /\ \E j \in mine :
                            /\ long_df[j].jobs = dominant[k].jobs
                            /\ long_df[j].naics_sector = dominant[k].dominant_sector
                            /\ long_df[j].redev_name = dominant[k].redev_name
                            /\ \A h \in mine :
                                  long_df[h].jobs = dominant[k].jobs => j <= h

\* C9 witness: two sectors of a tract tie for the maximum and the earlier one
\* was taken, and a tract with Retail_Trade 120 and Manufacturing 30 has
\* Retail_Trade; or a tract without any job has its first sector
C9_Witness ==
    /\ TablesDone
    /\ \E k \in DOMAIN dominant :
          \/ /\ dominant[k].jobs = 60
             /\ dominant[k].dominant_sector = "CNS05"
             /\ \E j \in DOMAIN long_df :
                   /\ long_df[j].geoid = dominant[k].geoid
                   /\ long_df[j].naics_sector = "CNS07"
                   /\ long_df[j].jobs = 60
          \/ /\ dominant[k].jobs = 120
             /\ dominant[k].sector_name = "Retail_Trade"
             /\ \E j \in DOMAIN long_df :
                   /\ long_df[j].geoid = dominant[k].geoid
                   /\ long_df[j].sector_name = "Manufacturing"
                   /\ long_df[j].jobs = 30

\* C10: the latest snapshot holds exactly one row per tract of the tract
\* geometry, with the indicator values of the tract's panel row of the
\* panel's latest year, or with missing values when the tract has none.
C10_Latest ==
    (AcsDone /\ redevTracts.ok) =>
        /\ \A t \in DOMAIN tractsIn :
              Cardinality({i \in DOMAIN latest : latest[i].GEOID = tractsIn[t].GEOID}) = 1
        /\ \A i \in DOMAIN latest :
              LET src == {j \in DOMAIN panel : /\ panel[j].geoid = latest[i].GEOID
                                               /\ panel[j].year = meta.latest_year}
              IN  IF src = {}
                  THEN ~latest[i].matched /\ latest[i].val = MissingVals
                  ELSE /\ latest[i].matched
                       /\ latest[i].year = meta.latest_year
                       /\ \E j \in src : latest[i].val = panel[j].val
        /\ \A j \in DOMAIN panel : panel[j].year <= meta.latest_year
        /\ \E j \in DOMAIN panel : panel[j].year = meta.latest_year

\* C11: a run of the pipeline leaves every staged input as it was: no step
\* changes the tract boundary file, the redevelopment boundary file, the ACS
\* extracts or the LODES file.
C11_InputsUnchanged ==
    [][/\ tractsFile' = tractsFile
       /\ redevFile' = redevFile
       /\ acsFiles' = acsFiles
       /\ lodesFile' = lodesFile]_vars

\* the (tract, sector) row i has been passed by the loop of process_lodes, or
\* the call ended in it
RowEnded(i) ==
    \/ pc = "done"
    \/ pc \in {"rows", "draw"} /\ i < loop.row
    \/ pc = "failed" /\ loop.row > 0 /\ i <= loop.row

\* the number of dot slots the row is due: none without jobs, else one per 50
\* jobs and at most 250
SlotTarget(i) ==
    IF long_df[i].jobs <= 0 THEN 0 ELSE Min2(long_df[i].jobs \div 50, 250)

\* C12: for every (tract, sector) row the dot loop draws nothing when jobs is
\* not positive and otherwise opens exactly min(floor(jobs / 50), 250) slots;
\* a slot makes at most 20 draws, ends with one dot at its first draw inside
\* the polygon and without a dot only after 20 draws outside it; so a row
\* the loop is through with has all its slots opened and at most that many dots.
C12_Slots ==
    /\ pc = "draw" => loop.attempt <= 20
    /\ \A i \in DOMAIN tally :
          /\ long_df[i].jobs <= 0 => tally[i].opened = 0 /\ tally[i].draws = 0
          /\ tally[i].opened <= SlotTarget(i)
          /\ emitted[i] <= tally[i].opened
          /\ tally[i].draws <= 20 * tally[i].opened
          /\ RowEnded(i) =>
                /\ tally[i].opened = SlotTarget(i)
                /\ tally[i].draws >= emitted[i] + 20 * (tally[i].opened - emitted[i])

====
